---- MODULE Spec2Model ----
(***************************************************************************)
(* Model of the GPIO pin facade of src/src/gpio.c over the HAL of          *)
(* src/src/hal.c.                                                          *)
(*                                                                         *)
(* The state is the storage of the pin instances (the static array of      *)
(* allocateInstance in the pool build, the malloc'ed objects in the        *)
(* USE_DYNAMIC_MEM build), the calls that reached the HAL during the       *)
(* latest call of the facade, and the record of the calls a client made.   *)
(* One action models one call of a public function of gpio.h.              *)
(***************************************************************************)
EXTENDS Integers, Sequences, FiniteSets, TLC

(***************************************************************************)
(* Build configuration and bounds.                                         *)
(***************************************************************************)

\* Capacity of the static pool.  gpio.c:42-44 takes the value from the
\* build (-DGPIO_MAX_INSTANCES=n) and falls back to 10; the model is the
\* build with a capacity of 3, and every statement below is written for
\* the capacity N = GPIO_MAX_INSTANCES.
GPIO_MAX_INSTANCES == 3

\* Number of objects the general allocator can hand out (dynamic build).
MaxHeap == 2

\* Number of gpioCreate calls that may report exhaustion.
MaxFailedCreates == 2

\* The null pointer: the empty handle.
NULL == -1

\* (port, bit) arguments a client passes to gpioCreate, as uint8_t values.
PinArgs == {<<7, 255>>, <<255, 7>>}
Ports == {a[1] : a \in PinArgs}
Bits == {a[2] : a \in PinArgs}

\* The two builds of gpio.c.
Modes == {"pool", "dynamic"}

VARIABLES
    mode,          \* which build: "pool" (default) or "dynamic" (USE_DYNAMIC_MEM)
    instances,     \* handle -> struct gpio_s
    halCalls,      \* calls the HAL received during the latest call, in order
    createCalls,   \* every gpioCreate call made: arguments and returned handle
    lastSetOutput, \* handle -> argument of the most recent gpioSetOutput on it
    last,          \* the call made by the latest step
    contexts,      \* execution context -> where its gpioCreate call stands
    twin           \* the dynamic build given the same calls as the pool build

vars == <<mode, instances, halCalls, createCalls, lastSetOutput, last,
          contexts, twin>>

(***************************************************************************)
(* struct gpio_s and the static array.                                     *)
(***************************************************************************)

\* Indices of the static array instances[GPIO_MAX_INSTANCES].
Slots == 0 .. (GPIO_MAX_INSTANCES - 1)

\* Objects the general allocator may return.  malloc never returns an
\* object that is still allocated and gpio.c frees none, so the objects are
\* named by the order in which they were allocated.
HeapAddrs == 0 .. (MaxHeap - 1)

\* What malloc can return from the heap `heap`: NULL, or the next fresh
\* object while there is one.
MallocFrom(heap, inst) ==
    {NULL} \cup {a \in heap : a = Cardinality(DOMAIN inst)}

\* What malloc can return: NULL, or the next fresh object while there is one.
MallocResults(inst) == MallocFrom(HeapAddrs, inst)

\* A zero-initialised element of the static array ( = {0} ).
ZeroInstance == [port |-> 0, bit |-> 0, output |-> FALSE, used |-> FALSE]

\* Handles that denote an object of the program.
Live == IF mode = "pool"
        THEN {h \in Slots : instances[h].used}
        ELSE DOMAIN instances

\* The execution contexts that call into the module, and a context that is
\* inside no call.
Contexts == {"main", "isr"}

IdleContext == [pc |-> "idle", index |-> 0, port |-> 0, bit |-> 0,
                self |-> NULL, calls |-> 0]

\* The dynamic build before any call: no object, nothing returned.
TwinInit == [instances |-> [h \in {} |-> 0], results |-> <<>>,
             halCalls |-> <<>>, returned |-> "none"]

(***************************************************************************)
(* allocateInstance (pool build).                                          *)
(***************************************************************************)

RECURSIVE allocateInstanceTop(_, _)
allocateInstanceTop(inst, index) ==
    IF index >= GPIO_MAX_INSTANCES THEN NULL
    ELSE LET rest == allocateInstanceTop(inst, index + 1)
         IN  IF rest # NULL THEN rest
             ELSE IF ~inst[index].used THEN index ELSE NULL

RECURSIVE allocateInstanceShort(_, _)
allocateInstanceShort(inst, index) ==
    IF index >= GPIO_MAX_INSTANCES - 1 THEN NULL
    ELSE IF ~inst[index].used THEN index
    ELSE allocateInstanceShort(inst, index + 1)

allocateInstanceNoTest(inst, index) ==
    IF index >= GPIO_MAX_INSTANCES THEN NULL ELSE index

\* The for loop of allocateInstance started at `index`: the first element
\* from there on that is not used, or NULL when the loop runs off the end.
RECURSIVE allocateInstance(_, _)
allocateInstance(inst, index) ==
    IF index >= GPIO_MAX_INSTANCES THEN NULL
    ELSE IF ~inst[index].used THEN index
    ELSE allocateInstance(inst, index + 1)

MarkUsedNot(inst, self) == inst

\* result->used = true, done on the element the loop stopped at.
MarkUsed(inst, self) ==
    IF self = NULL THEN inst ELSE [inst EXCEPT ![self].used = TRUE]

(***************************************************************************)
(* gpioCreate.                                                             *)
(***************************************************************************)

InitFieldsKeepDir(obj, port, bit) ==
    [obj EXCEPT !.port = port, !.bit = bit]

\* The three assignments under if (self).
InitFields(obj, port, bit) ==
    [obj EXCEPT !.port = port, !.bit = bit, !.output = FALSE]

\* What malloc(sizeof(struct gpio_s)) returns before it is initialised: the
\* three fields exist, their content is indeterminate.
RawObjects == [port : Ports, bit : Bits, output : BOOLEAN]

CreateStoreLastSlot(inst, self, port, bit) ==
    IF self # NULL
    THEN [inst EXCEPT ![self] = InitFields(@, port, bit)]
    ELSE [inst EXCEPT ![GPIO_MAX_INSTANCES - 1] = InitFields(@, port, bit)]

\* if (self) { ... }: the fields are written only through a non-null self.
CreateStore(inst, self, port, bit) ==
    IF self # NULL
    THEN [inst EXCEPT ![self] = InitFields(@, port, bit)]
    ELSE inst

gpioCreateSelfNoDuplicate(inst, port, bit) ==
    IF \E s \in Slots : inst[s].used /\ inst[s].port = port /\ inst[s].bit = bit
    THEN NULL
    ELSE allocateInstance(inst, 0)

\* gpio_t self = allocateInstance(): the loop runs from index 0 and the
\* arguments of gpioCreate take no part in it.
gpioCreateSelf(inst, port, bit) == allocateInstance(inst, 0)

gpioCreateCallsSetsInput(self, port, bit) ==
    IF self # NULL
    THEN <<[fn |-> "hal_gpio_set_direction", port |-> port, bit |-> bit,
            val |-> FALSE]>>
    ELSE <<>>

\* The HAL calls of gpioCreate: the function calls nothing of hal.h.
gpioCreateCalls(self, port, bit) == <<>>

gpioCreatePool(port, bit) ==
    /\ mode = "pool"
    /\ LET self == gpioCreateSelf(instances, port, bit)
           claimed == MarkUsed(instances, self)
       IN  /\ self = NULL =>
                Len(SelectSeq(createCalls, LAMBDA c : c.result = NULL))
                    < MaxFailedCreates
           /\ instances' = CreateStore(claimed, self, port, bit)
           /\ createCalls' = Append(createCalls,
                 [port |-> port, bit |-> bit, result |-> self])
           /\ last' = [op |-> "gpioCreate", port |-> port, bit |-> bit,
                       result |-> self]
           /\ halCalls' = gpioCreateCalls(self, port, bit)
    /\ UNCHANGED <<contexts, mode, lastSetOutput>>

\* What gpioCreate leaves in the storage in the dynamic build: the object
\* malloc gave, holding raw, initialised under if (self).
MallocStore(inst, self, raw, port, bit) ==
    IF self # NULL
    THEN [h \in DOMAIN inst \cup {self} |->
            IF h = self THEN InitFields(raw, port, bit) ELSE inst[h]]
    ELSE inst

mallocSelfCapped(inst, m) ==
    IF Cardinality(DOMAIN inst) >= GPIO_MAX_INSTANCES THEN NULL ELSE m

\* gpio_t self = malloc(sizeof(struct gpio_s)): self is what malloc
\* returned, m.
mallocSelf(inst, m) == m

\* gpioCreate in the dynamic build, malloc serving from the heap `heap`.
gpioCreateMalloc(heap, port, bit) ==
    /\ mode = "dynamic"
    /\ \E m \in MallocFrom(heap, instances) :
         LET self == mallocSelf(instances, m)
         IN  /\ self = NULL =>
                  Len(SelectSeq(createCalls, LAMBDA c : c.result = NULL))
                      < MaxFailedCreates
             /\ \E raw \in RawObjects :
                  instances' = MallocStore(instances, self, raw, port, bit)
             /\ createCalls' = Append(createCalls,
                   [port |-> port, bit |-> bit, result |-> self])
             /\ last' = [op |-> "gpioCreate", port |-> port, bit |-> bit,
                         result |-> self, malloc |-> m]
             /\ halCalls' = gpioCreateCalls(self, port, bit)
    /\ UNCHANGED <<contexts, mode, lastSetOutput>>

gpioCreateDynamic(port, bit) == gpioCreateMalloc(HeapAddrs, port, bit)

gpioCreate(port, bit) ==
    \/ gpioCreatePool(port, bit)
    \/ gpioCreateDynamic(port, bit)

(***************************************************************************)
(* Calls into the HAL.                                                     *)
(***************************************************************************)

HalCall(fn, port, bit, val) ==
    [fn |-> fn, port |-> port, bit |-> bit, val |-> val]

gpioSetOutputCallsSwapped(obj, output) ==
    <<HalCall("hal_gpio_set_direction", obj.bit, obj.port, output)>>

gpioSetOutputCallsTwice(obj, output) ==
    <<HalCall("hal_gpio_set_direction", obj.port, obj.bit, output),
      HalCall("hal_gpio_set_output", obj.port, obj.bit, output)>>

gpioSetOutputCallsNegated(obj, output) ==
    <<HalCall("hal_gpio_set_direction", obj.port, obj.bit, ~output)>>

\* The HAL calls of gpioSetOutput on the object obj.
gpioSetOutputCalls(obj, output) ==
    <<HalCall("hal_gpio_set_direction", obj.port, obj.bit, output)>>

gpioSetStateCallsUngated(obj, state) ==
    <<HalCall("hal_gpio_set_output", obj.port, obj.bit, state)>>

gpioSetStateCallsInverted(obj, state) ==
    IF obj.output
    THEN <<HalCall("hal_gpio_set_output", obj.port, obj.bit, ~state)>>
    ELSE <<>>

\* The HAL calls of gpioSetState on the object obj.
gpioSetStateCalls(obj, state) ==
    IF obj.output
    THEN <<HalCall("hal_gpio_set_output", obj.port, obj.bit, state)>>
    ELSE <<>>

gpioGetStateCallsGated(obj, level) ==
    IF obj.output THEN <<>>
    ELSE <<HalCall("hal_gpio_get_input", obj.port, obj.bit, level)>>

\* The HAL call of gpioGetState on the object obj; level is what the HAL
\* returns.
gpioGetStateCalls(obj, level) ==
    <<HalCall("hal_gpio_get_input", obj.port, obj.bit, level)>>

(***************************************************************************)
(* gpioSetOutput, gpioSetState, gpioGetState.                              *)
(***************************************************************************)

SelfFaultsLastElement(self) ==
    self \notin Live \/ self = GPIO_MAX_INSTANCES - 1

\* self->port, self->bit, self->output are undefined when self denotes no
\* object handed out by gpioCreate; none of the three functions tests self.
SelfFaults(self) == self \notin Live

StoreOutputClobbersBit(obj, output) ==
    [obj EXCEPT !.output = output, !.bit = 0]

StoreOutputSticky(obj, output) == [obj EXCEPT !.output = @ \/ output]

\* self->output = output
StoreOutput(obj, output) == [obj EXCEPT !.output = output]

gpioSetOutput(self, output) ==
    /\ ~SelfFaults(self)
    /\ instances' = [instances EXCEPT ![self] = StoreOutput(@, output)]
    /\ halCalls' = gpioSetOutputCalls(instances'[self], output)
    /\ lastSetOutput' = [h \in DOMAIN lastSetOutput \cup {self} |->
                           IF h = self THEN output ELSE lastSetOutput[h]]
    /\ last' = [op |-> "gpioSetOutput", self |-> self, output |-> output,
                before |-> instances[self].output]
    /\ UNCHANGED <<contexts, mode, createCalls>>

gpioSetState(self, state) ==
    /\ ~SelfFaults(self)
    /\ halCalls' = gpioSetStateCalls(instances[self], state)
    /\ last' = [op |-> "gpioSetState", self |-> self, state |-> state]
    /\ UNCHANGED <<contexts, mode, instances, createCalls, lastSetOutput>>

GetStateTouch(inst, self) == [inst EXCEPT ![self].output = FALSE]

\* What gpioGetState leaves in the storage: it writes nothing.
GetStateStore(inst, self) == inst

\* The value gpioGetState returns for the level the HAL returned.
ReturnedLevel(level) == level

\* hal_gpio_get_input of hal.c has no return statement, so the value the
\* caller reads is any boolean.
gpioGetState(self) ==
    /\ ~SelfFaults(self)
    /\ \E level \in BOOLEAN :
         /\ halCalls' = gpioGetStateCalls(instances[self], level)
         /\ last' = [op |-> "gpioGetState", self |-> self,
                     level |-> level, result |-> ReturnedLevel(level)]
    /\ instances' = GetStateStore(instances, self)
    /\ UNCHANGED <<contexts, mode, createCalls, lastSetOutput>>

(***************************************************************************)
(* The program.                                                            *)
(***************************************************************************)

Init ==
    /\ mode \in Modes
    /\ instances = IF mode = "pool"
                   THEN [h \in Slots |-> ZeroInstance]
                   ELSE [h \in {} |-> ZeroInstance]
    /\ halCalls = <<>>
    /\ createCalls = <<>>
    /\ lastSetOutput = [h \in {} |-> FALSE]
    /\ last = [op |-> "none"]
    /\ contexts = [c \in Contexts |-> IdleContext]
    /\ twin = TwinInit

Next ==
    \/ \E a \in PinArgs : gpioCreate(a[1], a[2]) /\ UNCHANGED twin
    \/ \E self \in DOMAIN instances, output \in BOOLEAN :
           gpioSetOutput(self, output) /\ UNCHANGED twin
    \/ \E self \in DOMAIN instances, state \in BOOLEAN :
           gpioSetState(self, state) /\ UNCHANGED twin
    \/ \E self \in DOMAIN instances : gpioGetState(self) /\ UNCHANGED twin

Spec == Init /\ [][Next]_vars

(***************************************************************************)
(* The same program with a client that also passes the NULL it got from an *)
(* exhausted gpioCreate to the other functions.  The functions dereference *)
(* self without a test, which is undefined for NULL: the call either traps *)
(* (the program ends there) or runs on whatever lies at address 0, the     *)
(* store of gpioSetOutput landing outside every instance.                  *)
(***************************************************************************)

\* The client holds a NULL returned by gpioCreate.
HoldsNull == \E i \in 1 .. Len(createCalls) : createCalls[i].result = NULL

\* The program was ended by a trap.
Trapped == last.op \in {"gpioSetOutput", "gpioSetState", "gpioGetState"}
           /\ last.self = NULL /\ last.trap

gpioSetOutputNull(output) ==
    /\ HoldsNull
    /\ SelfFaults(NULL)
    /\ \/ /\ halCalls' = <<>>
          /\ last' = [op |-> "gpioSetOutput", self |-> NULL,
                      output |-> output, trap |-> TRUE]
       \/ \E raw \in RawObjects :
            /\ halCalls' = gpioSetOutputCalls(StoreOutput(raw, output), output)
            /\ last' = [op |-> "gpioSetOutput", self |-> NULL,
                        output |-> output, trap |-> FALSE]
    /\ UNCHANGED <<contexts, mode, instances, createCalls, lastSetOutput>>

gpioSetStateNull(state) ==
    /\ HoldsNull
    /\ SelfFaults(NULL)
    /\ \/ /\ halCalls' = <<>>
          /\ last' = [op |-> "gpioSetState", self |-> NULL,
                      state |-> state, trap |-> TRUE]
       \/ \E raw \in RawObjects :
            /\ halCalls' = gpioSetStateCalls(raw, state)
            /\ last' = [op |-> "gpioSetState", self |-> NULL,
                        state |-> state, trap |-> FALSE]
    /\ UNCHANGED <<contexts, mode, instances, createCalls, lastSetOutput>>

gpioGetStateNull ==
    /\ HoldsNull
    /\ SelfFaults(NULL)
    /\ \/ /\ halCalls' = <<>>
          /\ last' = [op |-> "gpioGetState", self |-> NULL, trap |-> TRUE]
       \/ \E raw \in RawObjects, level \in BOOLEAN :
            /\ halCalls' = gpioGetStateCalls(raw, level)
            /\ last' = [op |-> "gpioGetState", self |-> NULL,
                        level |-> level, result |-> ReturnedLevel(level),
                        trap |-> FALSE]
    /\ UNCHANGED <<contexts, mode, instances, createCalls, lastSetOutput>>

NextNull ==
    \/ ~Trapped /\ Next
    \/ ~Trapped /\ UNCHANGED twin
                /\ \E output \in BOOLEAN : gpioSetOutputNull(output)
    \/ ~Trapped /\ UNCHANGED twin
                /\ \E state \in BOOLEAN : gpioSetStateNull(state)
    \/ ~Trapped /\ UNCHANGED twin /\ gpioGetStateNull

SpecNull == Init /\ [][NextNull]_vars

(***************************************************************************)
(* The dynamic build with a client that creates pins and nothing else, and *)
(* a heap that holds more objects than the pool of the other build has     *)
(* elements.                                                               *)
(***************************************************************************)

LargeHeap == 0 .. (GPIO_MAX_INSTANCES + MaxHeap - 1)

InitHeap == Init /\ mode = "dynamic"

NextHeap ==
    \E a \in PinArgs :
        gpioCreateMalloc(LargeHeap, a[1], a[2]) /\ UNCHANGED twin

SpecHeap == InitHeap /\ [][NextHeap]_vars

(***************************************************************************)
(* The pool build with gpioCreate called from two execution contexts and   *)
(* no mutual exclusion around it.  Each access of gpioCreate and           *)
(* allocateInstance to the shared array is one step: the read of           *)
(* instances[index].used, the write of used, and the writes of port, bit   *)
(* and output.  index, result and self are locals of the context.          *)
(***************************************************************************)

MaxRaceCreates == 2

\* The context c, its record changed to r.
Moved(c, r) == [contexts EXCEPT ![c] = r]

\* A context enters gpioCreate and allocateInstance: index = 0.
enterCreate(c, port, bit) ==
    /\ mode = "pool"
    /\ contexts[c].pc = "idle"
    /\ contexts[c].calls < MaxRaceCreates
    /\ contexts' = Moved(c, [pc |-> "test", index |-> 0, port |-> port,
                             bit |-> bit, self |-> NULL,
                             calls |-> contexts[c].calls + 1])
    /\ UNCHANGED <<mode, instances, halCalls, createCalls, lastSetOutput,
                   last>>

testUsedClaims(inst, index) == [inst EXCEPT ![index].used = TRUE]

\* What if (!instances[index].used) leaves in the array: it only reads.
testUsed(inst, index) == inst

\* if (!instances[index].used), and index++ with the loop test when the
\* element is taken.
testSlot(c) ==
    LET ctx == contexts[c]
    IN  /\ ctx.pc = "test"
        /\ instances' = testUsed(instances, ctx.index)
        /\ contexts' = Moved(c,
              IF ~instances[ctx.index].used
              THEN [ctx EXCEPT !.pc = "claim"]
              ELSE IF ctx.index + 1 < GPIO_MAX_INSTANCES
                   THEN [ctx EXCEPT !.index = ctx.index + 1]
                   ELSE [ctx EXCEPT !.pc = "return", !.self = NULL])
        /\ UNCHANGED <<mode, halCalls, createCalls, lastSetOutput, last>>

\* result = &instances[index]; result->used = true; break; return result.
claimSlot(c) ==
    LET ctx == contexts[c]
    IN  /\ ctx.pc = "claim"
        /\ instances' = MarkUsed(instances, ctx.index)
        /\ contexts' = Moved(c, [ctx EXCEPT !.pc = "port",
                                            !.self = ctx.index])
        /\ UNCHANGED <<mode, halCalls, createCalls, lastSetOutput, last>>

\* self->port = port.
writePort(c) ==
    LET ctx == contexts[c]
    IN  /\ ctx.pc = "port"
        /\ instances' = [instances EXCEPT ![ctx.self].port = ctx.port]
        /\ contexts' = Moved(c, [ctx EXCEPT !.pc = "bit"])
        /\ UNCHANGED <<mode, halCalls, createCalls, lastSetOutput, last>>

\* self->bit = bit.
writeBit(c) ==
    LET ctx == contexts[c]
    IN  /\ ctx.pc = "bit"
        /\ instances' = [instances EXCEPT ![ctx.self].bit = ctx.bit]
        /\ contexts' = Moved(c, [ctx EXCEPT !.pc = "output"])
        /\ UNCHANGED <<mode, halCalls, createCalls, lastSetOutput, last>>

\* self->output = false.
writeOutput(c) ==
    LET ctx == contexts[c]
    IN  /\ ctx.pc = "output"
        /\ instances' = [instances EXCEPT ![ctx.self].output = FALSE]
        /\ contexts' = Moved(c, [ctx EXCEPT !.pc = "return"])
        /\ UNCHANGED <<mode, halCalls, createCalls, lastSetOutput, last>>

\* return self.
returnSelf(c) ==
    LET ctx == contexts[c]
    IN  /\ ctx.pc = "return"
        /\ createCalls' = Append(createCalls,
              [port |-> ctx.port, bit |-> ctx.bit, result |-> ctx.self])
        /\ last' = [op |-> "gpioCreate", port |-> ctx.port, bit |-> ctx.bit,
                    result |-> ctx.self, context |-> c]
        /\ halCalls' = gpioCreateCalls(ctx.self, ctx.port, ctx.bit)
        /\ contexts' = Moved(c, [ctx EXCEPT !.pc = "idle"])
        /\ UNCHANGED <<mode, instances, lastSetOutput>>

InitRace == Init /\ mode = "pool"

NextRace ==
    \/ \E c \in Contexts, a \in PinArgs :
           enterCreate(c, a[1], a[2]) /\ UNCHANGED twin
    \/ \E c \in Contexts : testSlot(c) /\ UNCHANGED twin
    \/ \E c \in Contexts : claimSlot(c) /\ UNCHANGED twin
    \/ \E c \in Contexts : writePort(c) /\ UNCHANGED twin
    \/ \E c \in Contexts : writeBit(c) /\ UNCHANGED twin
    \/ \E c \in Contexts : writeOutput(c) /\ UNCHANGED twin
    \/ \E c \in Contexts : returnSelf(c) /\ UNCHANGED twin

SpecRace == InitRace /\ [][NextRace]_vars

(***************************************************************************)
(* The two builds side by side.  The variables of the program run the pool *)
(* build; twin runs the dynamic build on the same calls, its malloc never  *)
(* refusing, and on the same levels from hal_gpio_get_input.  The client   *)
(* names a handle by the gpioCreate call that returned it, so call i acts  *)
(* on createCalls[i].result in one build and on twin.results[i] in the     *)
(* other.  At most GPIO_MAX_INSTANCES gpioCreate calls are made.           *)
(***************************************************************************)

\* A heap from which GPIO_MAX_INSTANCES requests are all served.
TwinHeap == 0 .. (GPIO_MAX_INSTANCES - 1)

twinCreate(port, bit) ==
    \E m \in MallocFrom(TwinHeap, twin.instances) \ {NULL},
       raw \in RawObjects :
        LET self == mallocSelf(twin.instances, m)
        IN  twin' = [instances |-> MallocStore(twin.instances, self, raw,
                                              port, bit),
                     results |-> Append(twin.results, self),
                     halCalls |-> gpioCreateCalls(self, port, bit),
                     returned |-> IF self = NULL THEN "NULL" ELSE "handle"]

twinSetOutput(self, output) ==
    LET stored == [twin.instances EXCEPT ![self] = StoreOutput(@, output)]
    IN  twin' = [twin EXCEPT
                   !.instances = stored,
                   !.halCalls = gpioSetOutputCalls(stored[self], output),
                   !.returned = "none"]

twinSetState(self, state) ==
    twin' = [twin EXCEPT
               !.halCalls = gpioSetStateCalls(twin.instances[self], state),
               !.returned = "none"]

twinGetState(self, level) ==
    twin' = [twin EXCEPT
               !.instances = GetStateStore(twin.instances, self),
               !.halCalls = gpioGetStateCalls(twin.instances[self], level),
               !.returned = ReturnedLevel(level)]

bothCreate(port, bit) ==
    /\ Len(createCalls) < GPIO_MAX_INSTANCES
    /\ gpioCreatePool(port, bit)
    /\ twinCreate(port, bit)

bothSetOutput(i, output) ==
    /\ gpioSetOutput(createCalls[i].result, output)
    /\ twinSetOutput(twin.results[i], output)

bothSetState(i, state) ==
    /\ gpioSetState(createCalls[i].result, state)
    /\ twinSetState(twin.results[i], state)

bothGetState(i) ==
    /\ gpioGetState(createCalls[i].result)
    /\ twinGetState(twin.results[i], last'.level)

InitBoth == Init /\ mode = "pool"

NextBoth ==
    \/ \E a \in PinArgs : bothCreate(a[1], a[2])
    \/ \E i \in 1 .. Len(createCalls), output \in BOOLEAN :
           bothSetOutput(i, output)
    \/ \E i \in 1 .. Len(createCalls), state \in BOOLEAN :
           bothSetState(i, state)
    \/ \E i \in 1 .. Len(createCalls) : bothGetState(i)

SpecBoth == InitBoth /\ [][NextBoth]_vars

(***************************************************************************)
(* Vocabulary of the properties.                                           *)
(***************************************************************************)

\* The gpioCreate calls that returned a handle, in call order.
Successes == SelectSeq(createCalls, LAMBDA c : c.result # NULL)

\* The gpioCreate call that returned the handle h.
CreatedWith(h) == CHOOSE c \in {createCalls[i] : i \in 1 .. Len(createCalls)} :
                     c.result = h

\* The (port, bit) the handle h was created with.
PinOf(h) == <<CreatedWith(h).port, CreatedWith(h).bit>>

\* The calls of a sequence that drive the hardware: all but hal_gpio_get_input.
Drives(calls) == SelectSeq(calls, LAMBDA c : c.fn # "hal_gpio_get_input")

\* The most recent gpioSetOutput on h supplied true.
LastSetOutputTrue(h) == h \in DOMAIN lastSetOutput /\ lastSetOutput[h]

HandleOps == {"gpioSetOutput", "gpioSetState", "gpioGetState"}

(***************************************************************************)
(* C1  Exhaustion bound.  In the pool build with capacity N, the i-th      *)
(* gpioCreate call returns a handle when i <= N and NULL when i > N,       *)
(* whatever its arguments and whatever other calls are interleaved.        *)
(***************************************************************************)
ExhaustionBound ==
    mode = "pool" =>
        \A i \in 1 .. Len(createCalls) :
            (createCalls[i].result # NULL) <=> (i <= GPIO_MAX_INSTANCES)

\* Two failed calls with different arguments after N successes, with
\* gpioSetOutput calls made in between.
ExhaustionBoundWitness ==
    /\ mode = "pool"
    /\ Len(createCalls) = GPIO_MAX_INSTANCES + 2
    /\ createCalls[GPIO_MAX_INSTANCES].result # NULL
    /\ createCalls[GPIO_MAX_INSTANCES + 1].result = NULL
    /\ createCalls[GPIO_MAX_INSTANCES + 2].result = NULL
    /\ createCalls[GPIO_MAX_INSTANCES + 1].port
         # createCalls[GPIO_MAX_INSTANCES + 2].port
    /\ \E h \in Slots : LastSetOutputTrue(h)

(***************************************************************************)
(* C2  Allocation order.  In the pool build every successful gpioCreate    *)
(* returns the lowest index whose used flag was false, so the k-th         *)
(* successful call returns index k-1 and the returned indices increase.    *)
(***************************************************************************)
LowestFreeReturned ==
    (mode = "pool" /\ last'.op = "gpioCreate" /\ last'.result # NULL) =>
        /\ ~instances[last'.result].used
        /\ \A j \in Slots : j < last'.result => instances[j].used

SuccessesInSlotOrder ==
    mode = "pool" =>
        /\ \A k \in 1 .. Len(Successes) : Successes[k].result = k - 1
        /\ \A j, k \in 1 .. Len(Successes) :
               j < k => Successes[j].result < Successes[k].result

AllocationOrder == [] SuccessesInSlotOrder /\ [][LowestFreeReturned]_vars

AllocationOrderWitness ==
    /\ mode = "pool"
    /\ Len(Successes) = GPIO_MAX_INSTANCES
    /\ Successes[GPIO_MAX_INSTANCES].result = GPIO_MAX_INSTANCES - 1
    /\ last.op = "gpioCreate"
    /\ last.result = GPIO_MAX_INSTANCES - 1

(***************************************************************************)
(* C3  Direction gating.  gpioSetState(h, v) makes a hal_gpio_set_output   *)
(* call if and only if the most recent gpioSetOutput on h supplied true;   *)
(* otherwise (none yet, or the most recent supplied false) it makes no     *)
(* HAL call at all.                                                        *)
(***************************************************************************)
SetStateGated ==
    last'.op = "gpioSetState" =>
        IF LastSetOutputTrue(last'.self)
        THEN /\ Len(halCalls') = 1
             /\ halCalls'[1].fn = "hal_gpio_set_output"
        ELSE halCalls' = <<>>

DirectionGating == [][SetStateGated]_vars

\* A write on a handle set back to input is ignored while another handle
\* is an output.
DirectionGatingWitness ==
    /\ last.op = "gpioSetState"
    /\ last.self \in DOMAIN lastSetOutput
    /\ ~lastSetOutput[last.self]
    /\ halCalls = <<>>
    /\ \E B \in Live \ {last.self} : LastSetOutputTrue(B)

(***************************************************************************)
(* C4  Initial direction.  In both builds a handle returned by gpioCreate  *)
(* has output = false on return, and a gpioSetState on a handle on which   *)
(* gpioSetOutput was never called makes no hal_gpio_set_output call.       *)
(***************************************************************************)
CreatedAsInput ==
    (last'.op = "gpioCreate" /\ last'.result # NULL) =>
        ~instances'[last'.result].output

WriteBeforeSetOutputIgnored ==
    (last'.op = "gpioSetState" /\ last'.self \notin DOMAIN lastSetOutput) =>
        \A i \in 1 .. Len(halCalls') : halCalls'[i].fn # "hal_gpio_set_output"

InitialDirection ==
    [][CreatedAsInput /\ WriteBeforeSetOutputIgnored]_vars

InitialDirectionWitness ==
    /\ mode = "dynamic"
    /\ last.op = "gpioSetState"
    /\ last.self \notin DOMAIN lastSetOutput
    /\ last.state
    /\ halCalls = <<>>

(***************************************************************************)
(* C5  Forwarding of gpioSetOutput.  Every gpioSetOutput(h, v), also one   *)
(* that repeats the current direction, makes exactly the one HAL call      *)
(* hal_gpio_set_direction(p, b, v), p and b being the arguments of the     *)
(* gpioCreate call that returned h.                                        *)
(***************************************************************************)
SetOutputForwarding ==
    last.op = "gpioSetOutput" =>
        halCalls = <<HalCall("hal_gpio_set_direction",
                             CreatedWith(last.self).port,
                             CreatedWith(last.self).bit,
                             last.output)>>

\* Output set on a handle that was an output already.
SetOutputForwardingWitness ==
    /\ last.op = "gpioSetOutput"
    /\ last.output
    /\ last.before
    /\ halCalls = <<HalCall("hal_gpio_set_direction",
                            CreatedWith(last.self).port,
                            CreatedWith(last.self).bit, TRUE)>>
    /\ Len(Successes) >= 2

(***************************************************************************)
(* C6  Forwarding of gpioSetState.  When h's output field is true,         *)
(* gpioSetState(h, s) makes exactly the one HAL call                       *)
(* hal_gpio_set_output(p, b, s), p and b being the arguments of the        *)
(* gpioCreate call that returned h, and no other HAL call.                 *)
(***************************************************************************)
SetStateForwarded ==
    (last'.op = "gpioSetState" /\ instances[last'.self].output) =>
        halCalls' = <<HalCall("hal_gpio_set_output",
                              CreatedWith(last'.self).port,
                              CreatedWith(last'.self).bit,
                              last'.state)>>

SetStateForwarding == [][SetStateForwarded]_vars

SetStateForwardingWitness ==
    /\ last.op = "gpioSetState"
    /\ instances[last.self].output
    /\ ~last.state
    /\ halCalls = <<HalCall("hal_gpio_set_output",
                            CreatedWith(last.self).port,
                            CreatedWith(last.self).bit, FALSE)>>

(***************************************************************************)
(* C7  Forwarding of gpioGetState.  gpioGetState(h) makes exactly the one  *)
(* HAL call hal_gpio_get_input(p, b), whether h's output field is true or  *)
(* false, and returns the boolean that call returned.                      *)
(***************************************************************************)
GetStateForwarding ==
    last.op = "gpioGetState" =>
        /\ Len(halCalls) = 1
        /\ halCalls[1].fn = "hal_gpio_get_input"
        /\ halCalls[1].port = CreatedWith(last.self).port
        /\ halCalls[1].bit = CreatedWith(last.self).bit
        /\ last.result = halCalls[1].val

\* A read of a handle that is an output, the HAL returning true.
GetStateForwardingWitness ==
    /\ last.op = "gpioGetState"
    /\ instances[last.self].output
    /\ last.result
    /\ halCalls = <<HalCall("hal_gpio_get_input",
                            CreatedWith(last.self).port,
                            CreatedWith(last.self).bit, TRUE)>>

(***************************************************************************)
(* C8  Frame of gpioGetState.  gpioGetState(h) leaves the port, bit and    *)
(* output of every handle and the used flags unchanged, and makes no       *)
(* hal_gpio_set_direction or hal_gpio_set_output call.                     *)
(***************************************************************************)
GetStateFrame ==
    last'.op = "gpioGetState" =>
        /\ instances' = instances
        /\ Drives(halCalls') = <<>>
        /\ lastSetOutput' = lastSetOutput
        /\ createCalls' = createCalls

GetStateReadOnly == [][GetStateFrame]_vars

\* A read of an output handle, after which the handle is still an output
\* and the other handle still an input.
GetStateReadOnlyWitness ==
    /\ last.op = "gpioGetState"
    /\ ~last.result
    /\ instances[last.self].output
    /\ \E B \in Live \ {last.self} : ~instances[B].output
    /\ Len(halCalls) = 1

(***************************************************************************)
(* C9  Independence.  For two handles A and B returned by separate         *)
(* successful gpioCreate calls, no gpioSetOutput, gpioSetState or          *)
(* gpioGetState on A makes a HAL call whose (port, bit) are those of B.    *)
(* As stated this fails when A and B were created with the same            *)
(* (port, bit); it holds for every B whose (port, bit) differ from A's.    *)
(***************************************************************************)

\* Some HAL call of the latest facade call carries the (port, bit) of h.
CallsPinOf(h) ==
    \E i \in 1 .. Len(halCalls) :
        <<halCalls[i].port, halCalls[i].bit>> = PinOf(h)

\* The claim as stated.
IndependenceAsStated ==
    last.op \in HandleOps =>
        \A B \in Live \ {last.self} : ~CallsPinOf(B)

\* The claim for handles of different pins.
Independence ==
    last.op \in HandleOps =>
        \A B \in Live \ {last.self} :
            PinOf(B) # PinOf(last.self) => ~CallsPinOf(B)

\* An applied write on A while a handle B of another pin is an output too.
IndependenceWitness ==
    /\ last.op = "gpioSetState"
    /\ instances[last.self].output
    /\ \E B \in Live \ {last.self} :
           /\ PinOf(B) # PinOf(last.self)
           /\ instances[B].output
    /\ CallsPinOf(last.self)

(***************************************************************************)
(* C10  Exhaustion changes nothing.  A gpioCreate call that returns NULL   *)
(* modifies no used flag, port, bit or output: every handle returned       *)
(* before keeps its fields, and no HAL call is made.                       *)
(***************************************************************************)
FailedCreateFrame ==
    (last'.op = "gpioCreate" /\ last'.result = NULL) =>
        /\ instances' = instances
        /\ halCalls' = <<>>
        /\ lastSetOutput' = lastSetOutput

ExhaustionChangesNothing == [][FailedCreateFrame]_vars

\* Exhaustion of the pool while its last element is an output created with
\* other arguments than those of the failing call.
ExhaustionChangesNothingWitness ==
    /\ mode = "pool"
    /\ last.op = "gpioCreate"
    /\ last.result = NULL
    /\ instances[GPIO_MAX_INSTANCES - 1].output
    /\ instances[GPIO_MAX_INSTANCES - 1].port # last.port
    /\ \A h \in Slots : instances[h].used

(***************************************************************************)
(* C11  Totality.  gpioSetOutput, gpioSetState and gpioGetState can be     *)
(* called on every handle gpioCreate returned, in either direction and     *)
(* with either boolean, and complete: the call is never refused, and the   *)
(* only value reported back is the boolean gpioGetState returns.           *)
(***************************************************************************)
Returned == {createCalls[i].result : i \in 1 .. Len(createCalls)} \ {NULL}

Totality ==
    /\ \A h \in Returned :
          /\ \A v \in BOOLEAN : ENABLED gpioSetOutput(h, v)
          /\ \A v \in BOOLEAN : ENABLED gpioSetState(h, v)
          /\ ENABLED gpioGetState(h)
    /\ last.op = "gpioGetState" => last.result \in BOOLEAN

\* Every slot is handed out, one handle an output and one an input, and the
\* latest call is a write on the input one.
TotalityWitness ==
    /\ mode = "pool"
    /\ Cardinality(Returned) = GPIO_MAX_INSTANCES
    /\ last.op = "gpioSetState"
    /\ last.self = GPIO_MAX_INSTANCES - 1
    /\ ~instances[last.self].output
    /\ \E h \in Returned : instances[h].output

(***************************************************************************)
(* C12  The empty handle is rejected.  gpioSetOutput, gpioSetState and     *)
(* gpioGetState called with NULL return without a trap, without touching   *)
(* a field and without a HAL call.                                         *)
(***************************************************************************)
NullHandleRejected ==
    (last.op \in HandleOps /\ last.self = NULL) =>
        /\ ~last.trap
        /\ halCalls = <<>>

(***************************************************************************)
(* C13  Port and bit are fixed at creation.  In every state, the handle    *)
(* returned by gpioCreate(p, b) has port = p and bit = b, whatever         *)
(* gpioSetOutput, gpioSetState, gpioGetState and gpioCreate calls          *)
(* (successful or exhausted) were made since.                              *)
(***************************************************************************)
PinFixedAtCreation ==
    \A i \in 1 .. Len(createCalls) :
        createCalls[i].result # NULL =>
            /\ instances[createCalls[i].result].port = createCalls[i].port
            /\ instances[createCalls[i].result].bit = createCalls[i].bit

\* The first handle was made an output, a handle of another pin was created
\* after it, and the latest call is an exhausted gpioCreate with the other
\* handle's arguments.
PinFixedAtCreationWitness ==
    /\ mode = "pool"
    /\ last.op = "gpioCreate"
    /\ last.result = NULL
    /\ LastSetOutputTrue(0)
    /\ createCalls[2].port # createCalls[1].port
    /\ last.port # createCalls[1].port
    /\ instances[0].port = createCalls[1].port
    /\ instances[0].bit = createCalls[1].bit

(***************************************************************************)
(* C14  Direction state machine.  gpioSetOutput(h, true) leads h to        *)
(* OUTPUT and gpioSetOutput(h, false) to INPUT, from either state; every   *)
(* other call, and every call on another handle, leaves h's direction      *)
(* unchanged; and in every state both transitions of every handle are      *)
(* enabled.                                                                *)
(***************************************************************************)
DirectionStep ==
    /\ last'.op = "gpioSetOutput" =>
          /\ instances'[last'.self].output = last'.output
          /\ \A h \in Live \ {last'.self} :
                 instances'[h].output = instances[h].output
    /\ last'.op \in {"gpioSetState", "gpioGetState", "gpioCreate"} =>
          \A h \in Live : instances'[h].output = instances[h].output

BothTransitionsEnabled ==
    \A h \in Live, v \in BOOLEAN :
        ENABLED (gpioSetOutput(h, v) /\ instances'[h].output = v)

DirectionStateMachine ==
    [] BothTransitionsEnabled /\ [][DirectionStep]_vars

\* A handle taken from OUTPUT back to INPUT while another stays an output.
DirectionStateMachineWitness ==
    /\ last.op = "gpioSetOutput"
    /\ last.before
    /\ ~last.output
    /\ ~instances[last.self].output
    /\ \E h \in Live \ {last.self} : instances[h].output

(***************************************************************************)
(* C15  Reservation.  In the pool build a used flag, once true, stays      *)
(* true; in every state the used elements are exactly the indices          *)
(* 0 .. k-1, k being the number of gpioCreate calls that returned a        *)
(* handle, and k never exceeds the capacity.                               *)
(***************************************************************************)
UsedStaysUsed ==
    mode = "pool" =>
        \A s \in Slots : instances[s].used => instances'[s].used

UsedAreThePrefix ==
    mode = "pool" =>
        /\ {s \in Slots : instances[s].used} = 0 .. (Len(Successes) - 1)
        /\ Len(Successes) <= GPIO_MAX_INSTANCES

PoolReservation == [] UsedAreThePrefix /\ [][UsedStaysUsed]_vars

\* All but one slot handed out, and calls made on the handles since.
PoolReservationWitness ==
    /\ mode = "pool"
    /\ Len(Successes) = GPIO_MAX_INSTANCES - 1
    /\ instances[GPIO_MAX_INSTANCES - 2].used
    /\ ~instances[GPIO_MAX_INSTANCES - 1].used
    /\ last.op = "gpioGetState"
    /\ \E h \in Live : instances[h].output

(***************************************************************************)
(* C16  Distinct handles.  Any two gpioCreate calls that returned a handle *)
(* returned different handles, also when both were given the same          *)
(* (port, bit).                                                            *)
(***************************************************************************)
DistinctHandles ==
    \A i, j \in 1 .. Len(createCalls) :
        (i < j /\ createCalls[i].result # NULL /\ createCalls[j].result # NULL)
            => createCalls[i].result # createCalls[j].result

\* The whole pool handed out for one and the same pin.
DistinctHandlesWitness ==
    /\ mode = "pool"
    /\ Len(Successes) = GPIO_MAX_INSTANCES
    /\ \A k \in 1 .. Len(Successes) :
           <<Successes[k].port, Successes[k].bit>>
               = <<Successes[1].port, Successes[1].bit>>
    /\ Cardinality({Successes[k].result : k \in 1 .. Len(Successes)})
           = GPIO_MAX_INSTANCES

(***************************************************************************)
(* C17  No validation, no duplicate detection.  Whether gpioCreate         *)
(* returns a handle depends on the allocator alone: in the pool build it   *)
(* succeeds exactly when some element is not used, and while the allocator *)
(* can give an object gpioCreate can succeed with every (port, bit), also  *)
(* one a live handle already has.                                          *)
(***************************************************************************)
AllocatorHasRoom ==
    IF mode = "pool"
    THEN \E s \in Slots : ~instances[s].used
    ELSE MallocResults(instances) # {NULL}

SuccessIffRoom ==
    (mode = "pool" /\ last'.op = "gpioCreate") =>
        ((last'.result # NULL) <=> AllocatorHasRoom)

EveryPinAccepted ==
    AllocatorHasRoom =>
        \A a \in PinArgs :
            ENABLED (gpioCreate(a[1], a[2]) /\ last'.result # NULL)

NoValidation == [] EveryPinAccepted /\ [][SuccessIffRoom]_vars

\* A handle just created for the pin of a handle that is already live.
NoValidationWitness ==
    /\ last.op = "gpioCreate"
    /\ last.result # NULL
    /\ \E h \in Live \ {last.result} :
           /\ instances[h].port = last.port
           /\ instances[h].bit = last.bit
           /\ instances[h].output

(***************************************************************************)
(* C18  gpioCreate makes no HAL call, whether it returns a handle or NULL: *)
(* after gpioCreate calls alone nothing has reached the HAL.               *)
(***************************************************************************)
CreateCallsNoHal ==
    last.op \in {"none", "gpioCreate"} => halCalls = <<>>

\* A successful gpioCreate right after a call that did reach the HAL.
CreateCallsNoHalWitness ==
    /\ last.op = "gpioCreate"
    /\ last.result # NULL
    /\ halCalls = <<>>
    /\ \E h \in Live \ {last.result} : LastSetOutputTrue(h)

(***************************************************************************)
(* C19  Dynamic build.  gpioCreate returns NULL exactly when malloc        *)
(* returned NULL, and then changes nothing; otherwise it returns the       *)
(* object malloc returned, which is fresh, with port and bit set to the    *)
(* arguments and output false; and while malloc can give an object         *)
(* gpioCreate can succeed, however many handles are live: the pool         *)
(* capacity plays no role.                                                 *)
(***************************************************************************)
DynamicCreateStep ==
    (mode = "dynamic" /\ last'.op = "gpioCreate") =>
        /\ last'.result = last'.malloc
        /\ IF last'.result = NULL
           THEN instances' = instances
           ELSE /\ last'.result \notin DOMAIN instances
                /\ DOMAIN instances' = DOMAIN instances \cup {last'.result}
                /\ instances'[last'.result] =
                       [port |-> last'.port, bit |-> last'.bit,
                        output |-> FALSE]
                /\ \A h \in DOMAIN instances : instances'[h] = instances[h]

HeapRoomSuffices ==
    MallocFrom(LargeHeap, instances) # {NULL} =>
        \A a \in PinArgs :
            ENABLED (gpioCreateMalloc(LargeHeap, a[1], a[2])
                     /\ last'.result # NULL)

DynamicCreate == [] HeapRoomSuffices /\ [][DynamicCreateStep]_vars

\* More handles are live than the pool has elements, a refusal of malloc
\* lying between two successful calls.
DynamicCreateWitness ==
    /\ mode = "dynamic"
    /\ Cardinality(DOMAIN instances) > GPIO_MAX_INSTANCES
    /\ last.op = "gpioCreate"
    /\ last.result = GPIO_MAX_INSTANCES
    /\ \E i \in 1 .. Len(createCalls) :
           /\ createCalls[i].result = NULL
           /\ \E j \in 1 .. (i - 1) : createCalls[j].result # NULL

(***************************************************************************)
(* C20  Cache and HAL agree.  A hal_gpio_set_direction call is made        *)
(* through a handle h only by gpioSetOutput on h, exactly one per call,    *)
(* and after it h's output field equals the value passed to the HAL; no    *)
(* other step changes the output field of a handle gpioSetOutput was       *)
(* called on.  So between calls the field equals the value of the most     *)
(* recent hal_gpio_set_direction call made through h.                      *)
(***************************************************************************)
DirectionTold(calls) ==
    SelectSeq(calls, LAMBDA c : c.fn = "hal_gpio_set_direction")

CacheFollowsHal ==
    LET told == DirectionTold(halCalls')
    IN  IF last'.op = "gpioSetOutput"
        THEN /\ Len(told) = 1
             /\ <<told[1].port, told[1].bit>> = PinOf(last'.self)
             /\ instances'[last'.self].output = told[1].val
             /\ \A h \in DOMAIN lastSetOutput \ {last'.self} :
                    instances'[h].output = instances[h].output
        ELSE /\ told = <<>>
             /\ \A h \in DOMAIN lastSetOutput :
                    instances'[h].output = instances[h].output

CacheMatchesHal == [][CacheFollowsHal]_vars

\* gpioSetOutput has just turned a handle's direction around, and another
\* handle on the same pin was last told the opposite direction.
CacheMatchesHalWitness ==
    /\ last.op = "gpioSetOutput"
    /\ last.before # last.output
    /\ last.self \in DOMAIN lastSetOutput
    /\ DirectionTold(halCalls) # <<>>
    /\ halCalls[1].val = instances[last.self].output
    /\ \E h \in DOMAIN lastSetOutput \ {last.self} :
           /\ PinOf(h) = PinOf(last.self)
           /\ instances[h].output # instances[last.self].output

(***************************************************************************)
(* C21  The scan-and-claim of the pool is not atomic.  The test of a used  *)
(* flag writes nothing, so after a context found an element free the flag  *)
(* still reads false until that context's own write; the write is made     *)
(* without a second test, and the stores of gpioCreate replace whatever    *)
(* the element held.  Two contexts that interleave between the test and    *)
(* the write therefore get the same element, and the later stores replace  *)
(* the earlier caller's port and bit.                                      *)
(***************************************************************************)
ScanAndClaimSteps ==
    \A c \in Contexts :
        LET ctx == contexts[c]
            after == contexts'[c]
        IN  /\ (ctx.pc = "test" /\ after.pc = "claim") =>
                  /\ instances' = instances
                  /\ ~instances'[after.index].used
            /\ (ctx.pc = "claim" /\ after.pc = "port") =>
                  /\ after.self = ctx.index
                  /\ instances'[ctx.index].used
            /\ (ctx.pc = "port" /\ after.pc = "bit") =>
                  instances'[ctx.self].port = ctx.port
            /\ (ctx.pc = "bit" /\ after.pc = "output") =>
                  instances'[ctx.self].bit = ctx.bit

\* While one context stands between its test and its write of an element,
\* the test of the same element by a context that has claimed nothing yet
\* finds it free as well.
WindowStaysOpen ==
    \A c \in Contexts : \A d \in Contexts \ {c} :
        (/\ contexts[c].pc = "claim"
         /\ contexts[d].pc = "test"
         /\ contexts[d].index = contexts[c].index
         /\ contexts[d].calls = 1) =>
            ENABLED (testSlot(d) /\ contexts'[d].pc = "claim")

ScanAndClaimNotAtomic == [] WindowStaysOpen /\ [][ScanAndClaimSteps]_vars

\* Each context made one call, with different pins; both returned element
\* 0, and the element holds the port and bit of the call that returned last.
ScanAndClaimNotAtomicWitness ==
    /\ \A c \in Contexts : contexts[c].pc = "idle" /\ contexts[c].calls = 1
    /\ Len(createCalls) = 2
    /\ createCalls[1].result = 0
    /\ createCalls[2].result = 0
    /\ createCalls[1].port # createCalls[2].port
    /\ createCalls[1].bit # createCalls[2].bit
    /\ instances[0].port = createCalls[2].port
    /\ instances[0].bit = createCalls[2].bit
    /\ ~instances[1].used

(***************************************************************************)
(* C22  The pool build and the dynamic build are observationally           *)
(* equivalent while neither is exhausted: given the same calls, at most    *)
(* GPIO_MAX_INSTANCES of them gpioCreate, a malloc that never refuses and  *)
(* the same levels from hal_gpio_get_input, every gpioCreate returns NULL  *)
(* in both or in neither, every gpioGetState returns the same value, and   *)
(* every call makes the same HAL calls in the same order.                  *)
(***************************************************************************)
Returns ==
    CASE last.op = "gpioCreate" ->
             IF last.result = NULL THEN "NULL" ELSE "handle"
      [] last.op = "gpioGetState" -> last.result
      [] OTHER -> "none"

BuildsAgree ==
    /\ halCalls = twin.halCalls
    /\ Returns = twin.returned
    /\ Len(twin.results) = Len(createCalls)
    /\ \A i \in 1 .. Len(createCalls) :
           (createCalls[i].result = NULL) = (twin.results[i] = NULL)

\* A write through the second of two handles reached the HAL in both
\* builds, the first handle being an input still and GPIO_MAX_INSTANCES
\* handles having been created.
BuildsAgreeWitness ==
    /\ Len(createCalls) = GPIO_MAX_INSTANCES
    /\ last.op = "gpioSetState"
    /\ last.self = createCalls[2].result
    /\ Len(twin.halCalls) = 1
    /\ twin.halCalls[1].fn = "hal_gpio_set_output"
    /\ halCalls = twin.halCalls
    /\ ~twin.instances[twin.results[1]].output
    /\ createCalls[1].port # createCalls[2].port

====
